---- MODULE Spec2Model ----
(***************************************************************************)
(* A model of the path tracer: the scene list and the bounding-volume      *)
(* hierarchy built from it (hittables.rs, math/aabb.rs, math/interval.rs), *)
(* the recursive path integrator ray_color and the multi-threaded render   *)
(* loop (main.rs), and the materials (materials.rs).                       *)
(*                                                                         *)
(* Numbers.  The program computes in f32.  The model keeps to inputs on    *)
(* which every f32 operation of the modelled code is exact (small integer  *)
(* coordinates, axis-parallel directions, unit spheres, axis-aligned       *)
(* quads), so integers stand for the floats:                               *)
(*   - a coordinate or a length is an integer;                             *)
(*   - a ray parameter t is the integer TScale * t, so that the 0.001 of   *)
(*     ray_color is the integer 1;                                         *)
(*   - +inf, -inf and NaN are the three sentinels PInf, NInf, NaN, with    *)
(*     the IEEE rules for the operations that meet them (x/0, max, min,    *)
(*     ordered comparison).  A zero direction component is +0.0.           *)
(* Specifications:                                                         *)
(*   Spec             main's pipeline on one scene: add, from_hittable_list*)
(*                    (BVHNode::new step by step), then hit queries and    *)
(*                    ray_color (call by call)                             *)
(*   SpecRender       render: spawn, sample, join and reduce, write        *)
(*   FairSpecRender   SpecRender with the scheduler's fairness             *)
(***************************************************************************)
EXTENDS Integers, Sequences, FiniteSets, TLC

VARIABLES
    \* ---- scene, BVH construction, queries, ray_color (Spec) ----
    phase,        \* position of main: "scene", "build", "ready", "overflow", "off"
    hittables,    \* the HittableList: [objects, bounding_box]
    stack,        \* call stack of BVHNode::new, innermost call last
    new_calls,    \* invocations of BVHNode::new so far
    sort_calls,   \* invocations of sort_by so far
    world,        \* the BVHNode main holds once built (None before)
    ray,          \* the ray of the current query (None before a ray is cast)
    t_range,      \* the interval of the current hit query
    list_hit,     \* result of HittableList::hit on (ray, t_range), or "unset"
    bvh_hit,      \* result of BVHNode::hit on (ray, t_range), or "unset"
    rc_stack,     \* call stack of ray_color, innermost call last
    rc_depth,     \* the depth the outermost ray_color call was given
    rc_queries,   \* world.hit queries made by the current ray_color call tree
    rc_result,    \* the value the outermost ray_color call returned, or "unset"
    \* ---- render (SpecRender) ----
    r_in,         \* render's arguments: [samples, thread_count, width, height]
    r_pc,         \* position of the coordinating thread
    r_i,          \* its loop variable (spawn index, join index, pixel index)
    colors,       \* the reduced buffer
    workers,      \* per spawned thread: [state, samples_in_thread, pos, colors_local]
    screen,       \* screen.buffer
    writes,       \* per pixel, the number of write_pixel calls so far
    run,          \* which invocation of render this is (0: none, 1, 2)
    first_screen, \* screen.buffer as the first invocation left it
    \* ---- single calls of pure functions (SpecCalls) ----
    call,         \* the function called and its arguments, or "none"
    ret           \* what the call returned

sceneVars  == <<phase, hittables, stack, new_calls, sort_calls, world, ray, t_range,
                list_hit, bvh_hit, rc_stack, rc_depth, rc_queries, rc_result>>
runVars    == <<run, first_screen>>
renderVars == <<r_in, r_pc, r_i, colors, workers, screen, writes, runVars>>
callVars   == <<call, ret>>
vars       == <<sceneVars, renderVars, callVars>>

----------------------------------------------------------------------------
(* f32 values that are not finite, and the scale of ray parameters *)

PInf == 1000000
NInf == -1000000
NaN == 2000000
TScale == 1000

IsNaN(x) == x = NaN

\* a <= b and a < b on f32: false when either side is NaN
FLe(a, b) == ~IsNaN(a) /\ ~IsNaN(b) /\ a <= b
FLt(a, b) == ~IsNaN(a) /\ ~IsNaN(b) /\ a < b

\* f32::max and f32::min: a NaN operand is ignored
FMax(a, b) == IF IsNaN(a) THEN b ELSE IF IsNaN(b) THEN a ELSE IF a >= b THEN a ELSE b
FMin(a, b) == IF IsNaN(a) THEN b ELSE IF IsNaN(b) THEN a ELSE IF a <= b THEN a ELSE b

\* a - b on f32 for operands that may be infinite
FSub(a, b) ==
    IF IsNaN(a) \/ IsNaN(b) THEN NaN
    ELSE IF a = PInf THEN (IF b = PInf THEN NaN ELSE PInf)
    ELSE IF a = NInf THEN (IF b = NInf THEN NaN ELSE NInf)
    ELSE IF b = PInf THEN NInf
    ELSE IF b = NInf THEN PInf
    ELSE a - b

Abs(x) == IF x < 0 THEN -x ELSE x

\* n / d for integers with d # 0 and d dividing n
ExactDiv(n, d) == IF d > 0 THEN n \div d ELSE (-n) \div (-d)
Divides(d, n) == d # 0 /\ (Abs(n) % Abs(d)) = 0

\* the ray parameter n / d (a finite length over a direction component),
\* with the IEEE results of dividing by zero
TDiv(n, d) ==
    IF d = 0 THEN (IF n > 0 THEN PInf ELSE IF n < 0 THEN NInf ELSE NaN)
    ELSE ExactDiv(TScale * n, d)

IsSquare(n) == n >= 0 /\ \E s \in 0..n : s * s = n
Sqrt(n) == CHOOSE s \in 0..n : s * s = n

----------------------------------------------------------------------------
(* Vec3 *)

Vec3(x, y, z) == <<x, y, z>>
ZERO == Vec3(0, 0, 0)
ONE == Vec3(1, 1, 1)
VAdd(a, b) == Vec3(a[1] + b[1], a[2] + b[2], a[3] + b[3])
VSub(a, b) == Vec3(a[1] - b[1], a[2] - b[2], a[3] - b[3])
VNeg(a) == Vec3(-a[1], -a[2], -a[3])
VMul(a, b) == Vec3(a[1] * b[1], a[2] * b[2], a[3] * b[3])
VScale(a, k) == Vec3(a[1] * k, a[2] * k, a[3] * k)
VDivExact(a, k) == Vec3(ExactDiv(a[1], k), ExactDiv(a[2], k), ExactDiv(a[3], k))
uniform(v) == Vec3(v, v, v)
dot(a, b) == a[1] * b[1] + a[2] * b[2] + a[3] * b[3]
cross(a, b) ==
    Vec3(a[2] * b[3] - a[3] * b[2], a[3] * b[1] - a[1] * b[3], a[1] * b[2] - a[2] * b[1])
length_squared(a) == dot(a, a)
near_zero(a) == a = ZERO

\* a vector parallel to an axis
AxisParallel(a) == Cardinality({i \in 1..3 : a[i] # 0}) = 1
\* length_squared().sqrt(), on the vectors whose length is an integer
length(a) == Sqrt(length_squared(a))
normalized(a) == VDivExact(a, length(a))
reflected(a, normal) == VSub(a, VScale(normal, 2 * dot(a, normal)))

----------------------------------------------------------------------------
(* Ray *)

None == [some |-> FALSE]
Ray(origin, direction) == [some |-> TRUE, origin |-> origin, direction |-> direction]

\* origin + t * direction, t being TScale times the parameter
RayAt(r, t) == VAdd(r.origin, VDivExact(VScale(r.direction, t), TScale))

----------------------------------------------------------------------------
(* Interval *)

Interval(start, end) == [start |-> start, end |-> end]
IntervalEMPTY == Interval(PInf, NInf)
IntervalCombine(a, b) ==
    Interval(IF FLe(a.start, b.start) THEN a.start ELSE b.start,
             IF FLe(b.end, a.end) THEN a.end ELSE b.end)
size(iv) == FSub(iv.end, iv.start)
contains(iv, v) == FLe(iv.start, v) /\ FLe(v, iv.end)
surrounds(iv, v) == FLt(iv.start, v) /\ FLt(v, iv.end)

----------------------------------------------------------------------------
(* AABB *)

AABB(x, y, z) == <<x, y, z>>
AABBEMPTY == AABB(IntervalEMPTY, IntervalEMPTY, IntervalEMPTY)
AABBCombine(a, b) ==
    AABB(IntervalCombine(a[1], b[1]), IntervalCombine(a[2], b[2]),
         IntervalCombine(a[3], b[3]))

FromPointsAxis(a, b) == IF a <= b THEN Interval(a, b) ELSE Interval(b, a)
from_points(a, b) ==
    AABB(FromPointsAxis(a[1], b[1]), FromPointsAxis(a[2], b[2]), FromPointsAxis(a[3], b[3]))

\* one iteration of the slab loop on axis i: the narrowed t_range
SlabStep(box, r, tr, i) ==
    LET a0 == TDiv(box[i].start - r.origin[i], r.direction[i])
        a1 == TDiv(box[i].end - r.origin[i], r.direction[i])
        t0 == IF FLe(a0, a1) THEN a0 ELSE a1
        t1 == IF FLe(a0, a1) THEN a1 ELSE a0
    IN  Interval(FMax(tr.start, t0), FMin(tr.end, t1))

\* the loop's rejection test after an iteration
SlabReject(tr) == FLe(tr.end, tr.start)

AABBHit(box, r, tr) ==
    LET r1 == SlabStep(box, r, tr, 1)
        r2 == SlabStep(box, r, r1, 2)
        r3 == SlabStep(box, r, r2, 3)
    IN  ~SlabReject(r1) /\ ~SlabReject(r2) /\ ~SlabReject(r3)

\* longest_axis with strict comparisons: a tie goes to the later axis
longest_axisStrict(box) ==
    IF FLt(size(box[2]), size(box[1]))
    THEN (IF FLt(size(box[3]), size(box[1])) THEN 0 ELSE 2)
    ELSE (IF FLt(size(box[3]), size(box[2])) THEN 1 ELSE 2)

longest_axis(box) ==
    IF FLe(size(box[2]), size(box[1]))
    THEN (IF FLe(size(box[3]), size(box[1])) THEN 0 ELSE 2)
    ELSE (IF FLe(size(box[3]), size(box[2])) THEN 1 ELSE 2)

----------------------------------------------------------------------------
(* Materials: scatter's outcomes and emitted *)

Lambertian(albedo) == [kind |-> "Lambertian", albedo |-> albedo]
Metal(albedo, roughness) == [kind |-> "Metal", albedo |-> albedo, roughness |-> roughness]
DiffuseLight(color) == [kind |-> "DiffuseLight", color |-> color]

NoScatter == [some |-> FALSE]
Scattered(attenuation, r) == [some |-> TRUE, attenuation |-> attenuation, ray |-> r]

\* the values random_unit_vector can return that keep the arithmetic exact
UnitVectors ==
    {Vec3(1, 0, 0), Vec3(-1, 0, 0), Vec3(0, 1, 0), Vec3(0, -1, 0), Vec3(0, 0, 1),
     Vec3(0, 0, -1)}

LambertianScatter(m, info, rnd) ==
    LET dir0 == VAdd(info.normal, rnd)
        dir == IF near_zero(dir0) THEN info.normal ELSE dir0
    IN  Scattered(m.albedo, Ray(info.point, dir))

MetalScatter(m, ray_in, info, rnd) ==
    LET reflected_dir == reflected(ray_in.direction, info.normal)
        dir == VAdd(normalized(reflected_dir), VScale(rnd, m.roughness))
    IN  IF dot(dir, info.normal) > 0
        THEN Scattered(m.albedo, Ray(info.point, dir))
        ELSE NoScatter

\* Material::scatter with the random unit vector rnd it draws (the default
\* method, which DiffuseLight keeps, draws none and never scatters)
Scatter(m, ray_in, info, rnd) ==
    IF m.kind = "Lambertian" THEN LambertianScatter(m, info, rnd)
    ELSE IF m.kind = "Metal" THEN MetalScatter(m, ray_in, info, rnd)
    ELSE NoScatter

\* Material::emitted (zero by default, the color for DiffuseLight)
Emitted(m, info) == IF m.kind = "DiffuseLight" THEN m.color ELSE ZERO

----------------------------------------------------------------------------
(* HitInfo, Sphere, Quad *)

HitInfo(material, t, point, normal, front_face) ==
    [some |-> TRUE, material |-> material, t |-> t, point |-> point,
     normal |-> normal, front_face |-> front_face]

FrontFace(r, outward_normal) == dot(outward_normal, r.direction) < 0

\* set_face_normal that stores the outward normal as it is
set_face_normalNoFlip(material, t, point, r, outward_normal) ==
    HitInfo(material, t, point, outward_normal, FrontFace(r, outward_normal))

\* the record with t and point set, after set_face_normal(ray, outward_normal)
set_face_normal(material, t, point, r, outward_normal) ==
    HitInfo(material, t, point,
            IF FrontFace(r, outward_normal) THEN outward_normal ELSE VNeg(outward_normal),
            FrontFace(r, outward_normal))

SphereNew(center, radius, material) ==
    [kind |-> "sphere", center |-> center, radius |-> radius, material |-> material,
     bounding_box |-> from_points(VSub(center, uniform(radius)),
                                  VAdd(center, uniform(radius)))]

SphereHit(s, r, tr) ==
    LET origin_to_center == VSub(s.center, r.origin)
        a == length_squared(r.direction)
        h == dot(r.direction, origin_to_center)
        c == length_squared(origin_to_center) - s.radius * s.radius
        discriminant == h * h - a * c
    IN  IF discriminant < 0 THEN None
        ELSE LET sqrt_discriminant == Sqrt(discriminant)
                 tnear == ExactDiv(TScale * (h - sqrt_discriminant), a)
                 tfar == ExactDiv(TScale * (h + sqrt_discriminant), a)
                 t == IF surrounds(tr, tnear) THEN tnear ELSE tfar
             IN  IF ~surrounds(tr, t) THEN None
                 ELSE set_face_normal(s.material, t, RayAt(r, t), r,
                                      normalized(VSub(RayAt(r, t), s.center)))

QuadNew(origin, u, v, material) ==
    LET perp == cross(u, v)
    IN  [kind |-> "quad", origin |-> origin, u |-> u, v |-> v,
         normal |-> normalized(perp),
         d |-> dot(normalized(perp), origin),
         \* w = perp / |perp|^2, kept as numerator and denominator
         w |-> [num |-> perp, den |-> length_squared(perp)],
         material |-> material,
         bounding_box |-> AABBCombine(from_points(origin, VAdd(VAdd(origin, u), v)),
                                      from_points(VAdd(origin, u), VAdd(origin, v)))]

\* UNIT_INTERVAL.contains(num / den) for den > 0
UnitContains(num, den) == contains(Interval(0, den), num)

QuadHit(q, r, tr) ==
    LET denom == dot(q.normal, r.direction)
    IN  IF denom = 0 THEN None
        ELSE LET nom == q.d - dot(q.normal, r.origin)
                 t == ExactDiv(TScale * nom, denom)
             IN  IF ~surrounds(tr, t) THEN None
                 ELSE LET hit_point == RayAt(r, t)
                          q_p_vector == VSub(hit_point, q.origin)
                          alpha == dot(q.w.num, cross(q_p_vector, q.v))
                          beta == dot(q.w.num, cross(q.u, q_p_vector))
                      IN  IF ~UnitContains(alpha, q.w.den) \/ ~UnitContains(beta, q.w.den)
                          THEN None
                          ELSE set_face_normal(q.material, t, hit_point, r, q.normal)

----------------------------------------------------------------------------
(* Hittable::hit.  A query returns [info, calls]: the Option<HitInfo>, and  *)
(* the number of Sphere::hit and Quad::hit invocations it made.            *)

RECURSIVE Hit(_, _, _)

\* BVHNode::hit without the test of the node's own box
BVHNodeHitNoBoxTest(node, r, tr) ==
    LET left_hit == Hit(node.left, r, tr)
    IN  IF left_hit.info.some
        THEN LET hit_right == Hit(node.right, r, Interval(tr.start, left_hit.info.t))
             IN  [info |-> IF hit_right.info.some THEN hit_right.info ELSE left_hit.info,
                  calls |-> left_hit.calls + hit_right.calls]
        ELSE LET hit_right == Hit(node.right, r, tr)
             IN  [info |-> hit_right.info, calls |-> left_hit.calls + hit_right.calls]

\* BVHNode::hit that returns the left hit whenever the left child hits
BVHNodeHitLeftWins(node, r, tr) ==
    IF ~AABBHit(node.bounding_box, r, tr) THEN [info |-> None, calls |-> 0]
    ELSE LET left_hit == Hit(node.left, r, tr)
         IN  IF left_hit.info.some
             THEN LET hit_right == Hit(node.right, r, Interval(tr.start, left_hit.info.t))
                  IN  [info |-> left_hit.info,
                       calls |-> left_hit.calls + hit_right.calls]
             ELSE LET hit_right == Hit(node.right, r, tr)
                  IN  [info |-> hit_right.info,
                       calls |-> left_hit.calls + hit_right.calls]

BVHNodeHit(node, r, tr) ==
    IF ~AABBHit(node.bounding_box, r, tr) THEN [info |-> None, calls |-> 0]
    ELSE LET left_hit == Hit(node.left, r, tr)
         IN  IF left_hit.info.some
             THEN LET hit_right == Hit(node.right, r, Interval(tr.start, left_hit.info.t))
                  IN  [info |-> IF hit_right.info.some THEN hit_right.info
                                ELSE left_hit.info,
                       calls |-> left_hit.calls + hit_right.calls]
             ELSE LET hit_right == Hit(node.right, r, tr)
                  IN  [info |-> hit_right.info,
                       calls |-> left_hit.calls + hit_right.calls]

Hit(obj, r, tr) ==
    IF obj.kind = "sphere" THEN [info |-> SphereHit(obj, r, tr), calls |-> 1]
    ELSE IF obj.kind = "quad" THEN [info |-> QuadHit(obj, r, tr), calls |-> 1]
    ELSE BVHNodeHit(obj, r, tr)

\* the loop with every member probed over the whole interval
RECURSIVE ListScanWholeRange(_, _, _, _, _, _)
ListScanWholeRange(objects, i, r, start, closest_so_far, acc) ==
    IF i > Len(objects) THEN acc
    ELSE LET res == Hit(objects[i], r, Interval(start, closest_so_far))
         IN  ListScanWholeRange(objects, i + 1, r, start, closest_so_far,
                 [info |-> IF res.info.some THEN res.info ELSE acc.info,
                  calls |-> acc.calls + res.calls])

\* the loop of HittableList::hit from member i on
RECURSIVE ListScan(_, _, _, _, _, _)
ListScan(objects, i, r, start, closest_so_far, acc) ==
    IF i > Len(objects) THEN acc
    ELSE LET res == Hit(objects[i], r, Interval(start, closest_so_far))
         IN  IF res.info.some
             THEN ListScan(objects, i + 1, r, start, res.info.t,
                           [info |-> res.info, calls |-> acc.calls + res.calls])
             ELSE ListScan(objects, i + 1, r, start, closest_so_far,
                           [info |-> acc.info, calls |-> acc.calls + res.calls])

HittableListHit(list, r, tr) ==
    ListScan(list.objects, 1, r, tr.start, tr.end, [info |-> None, calls |-> 0])

HittableListNew == [objects |-> <<>>, bounding_box |-> AABBEMPTY]

\* add that takes the new object's box for the list's
HittableListAddKeepsLastBox(list, obj) ==
    [objects |-> Append(list.objects, obj), bounding_box |-> obj.bounding_box]

HittableListAdd(list, obj) ==
    [objects |-> Append(list.objects, obj),
     bounding_box |-> AABBCombine(list.bounding_box, obj.bounding_box)]

----------------------------------------------------------------------------
(* Bounds and inputs of the scene specification *)

MaxObjs == 3       \* surfaces added to the list
MaxDepth == 2      \* max_depth handed to ray_color
MaxStack == 4      \* nested calls the thread's stack holds before it overflows

\* 0.001, the near end of ray_color's query interval, times TScale
TMin == 1

background_color == Vec3(1, 2, 3)

SphereA == SphereNew(Vec3(0, 0, 0), 1, Lambertian(Vec3(2, 1, 0)))
QuadLight == QuadNew(Vec3(-1, -1, 3), Vec3(2, 0, 0), Vec3(0, 2, 0), DiffuseLight(Vec3(4, 4, 4)))
QuadMetal == QuadNew(Vec3(-1, -1, -3), Vec3(2, 0, 0), Vec3(0, 2, 0), Metal(Vec3(1, 2, 1), 1))
QuadWall == QuadNew(Vec3(2, -1, -3), Vec3(0, 2, 0), Vec3(0, 0, 6), Lambertian(Vec3(1, 1, 2)))

Surfaces == {SphereA, QuadLight, QuadMetal, QuadWall}

Origins == {Vec3(x, 0, z) : x \in {-2, 0, 1}, z \in {-4, -2, 0, 2}}
Directions == UnitVectors
Rays == {Ray(o, d) : o \in Origins, d \in Directions}
TRanges == {Interval(TMin, PInf), Interval(TMin, 4 * TScale)}

\* the rays on which Sphere::hit and Quad::hit compute without rounding
ExactOnSphere(s, r) ==
    LET oc == VSub(s.center, r.origin)
        a == length_squared(r.direction)
        h == dot(r.direction, oc)
        disc == h * h - a * (length_squared(oc) - s.radius * s.radius)
    IN  disc < 0
        \/ /\ IsSquare(disc)
           /\ \A sg \in {-1, 1} :
                /\ Divides(a, TScale * (h + sg * Sqrt(disc)))
                /\ LET t == ExactDiv(TScale * (h + sg * Sqrt(disc)), a)
                   IN  /\ \A i \in 1..3 : Divides(TScale, r.direction[i] * t)
                       /\ AxisParallel(VSub(RayAt(r, t), s.center))

ExactOnQuad(q, r) ==
    LET denom == dot(q.normal, r.direction)
        nom == q.d - dot(q.normal, r.origin)
    IN  denom = 0
        \/ /\ Divides(denom, TScale * nom)
           /\ \A i \in 1..3 : Divides(TScale, r.direction[i] * ExactDiv(TScale * nom, denom))

ExactRay(objects, r) ==
    /\ AxisParallel(r.direction)
    /\ \A i \in 1..3 : Divides(r.direction[i], TScale) \/ r.direction[i] = 0
    /\ \A k \in 1..Len(objects) :
         IF objects[k].kind = "sphere" THEN ExactOnSphere(objects[k], r)
         ELSE ExactOnQuad(objects[k], r)

----------------------------------------------------------------------------
(* BVHNode::new, one call per stack frame over the slice                   *)
(* objects[lo .. lo + n - 1] of the list's vector                          *)

BVHNode(left, right, bounding_box) ==
    [kind |-> "bvh", left |-> left, right |-> right, bounding_box |-> bounding_box]

Frame(lo, n) ==
    [lo |-> lo, n |-> n, pc |-> "enter", bounding_box |-> AABBEMPTY,
     left |-> None, right |-> None]

\* the box of the first object of the slice alone
SliceBoxFirstOnly(objects, lo, n) ==
    IF n <= 0 THEN AABBEMPTY ELSE objects[lo].bounding_box

\* the loop that unions the boxes of objects[lo .. lo + n - 1]
RECURSIVE SliceBox(_, _, _)
SliceBox(objects, lo, n) ==
    IF n <= 0 THEN AABBEMPTY
    ELSE AABBCombine(SliceBox(objects, lo, n - 1), objects[lo + n - 1].bounding_box)

SortKey(obj, axis) == obj.bounding_box[axis + 1].start

\* a_start.total_cmp(&b_start) is not Greater
KeyLe(a, b, axis) == SortKey(a, axis) <= SortKey(b, axis)

RECURSIVE InsertByKey(_, _, _)
InsertByKey(sorted, x, axis) ==
    IF sorted = <<>> THEN <<x>>
    ELSE IF KeyLe(Head(sorted), x, axis)
         THEN <<Head(sorted)>> \o InsertByKey(Tail(sorted), x, axis)
         ELSE <<x>> \o sorted

\* slice.sort_by: a stable sort on the key
RECURSIVE SortByKey(_, _)
SortByKey(s, axis) ==
    IF s = <<>> THEN <<>>
    ELSE InsertByKey(SortByKey(SubSeq(s, 1, Len(s) - 1), axis), s[Len(s)], axis)

\* a sort that fills the slice with its first member
SortSliceOverwrites(objects, lo, n, axis) ==
    [k \in 1..Len(objects) |->
        IF k >= lo /\ k < lo + n THEN objects[lo] ELSE objects[k]]

\* the vector after sorting its slice objects[lo .. lo + n - 1] in place
SortSlice(objects, lo, n, axis) ==
    SubSeq(objects, 1, lo - 1)
        \o SortByKey(SubSeq(objects, lo, lo + n - 1), axis)
        \o SubSeq(objects, lo + n, Len(objects))

\* a split that hands the whole slice to the left call
MidWhole(n) == n

\* the midpoint rounded up
MidCeil(n) == (n + 1) \div 2

\* objects.len() / 2
Mid(n) == n \div 2

Top(stk) == stk[Len(stk)]
SetTop(stk, f) == [stk EXCEPT ![Len(stk)] = f]
Pop(stk) == SubSeq(stk, 1, Len(stk) - 1)

Unset == [info |-> None, calls |-> -1]

queryVars == <<ray, t_range, list_hit, bvh_hit>>
traceVars == <<rc_stack, rc_depth, rc_queries, rc_result>>
buildVars == <<stack, new_calls, sort_calls, world>>

\* HittableList::add during scene construction
Add(obj) ==
    /\ phase = "scene"
    /\ Len(hittables.objects) < MaxObjs
    /\ hittables' = HittableListAdd(hittables, obj)
    /\ UNCHANGED <<phase, buildVars, queryVars, traceVars, renderVars, callVars>>

\* BVHNode::from_hittable_list: the outermost call of BVHNode::new
FromHittableList ==
    /\ phase = "scene"
    /\ phase' = "build"
    /\ stack' = <<Frame(1, Len(hittables.objects))>>
    /\ new_calls' = 1
    /\ UNCHANGED <<hittables, sort_calls, world, queryVars, traceVars, renderVars, callVars>>

\* a call of BVHNode::new on a slice of 1 or 2: box, axis, the two children
BVHNewLeaf ==
    /\ phase = "build"
    /\ Top(stack).pc = "enter"
    /\ Top(stack).n \in {1, 2}
    /\ LET f == Top(stack)
           objs == hittables.objects
       IN  stack' = SetTop(stack,
                [f EXCEPT !.pc = "ret",
                          !.bounding_box = SliceBox(objs, f.lo, f.n),
                          !.left = objs[f.lo],
                          !.right = IF f.n = 1 THEN objs[f.lo] ELSE objs[f.lo + 1]])
    /\ UNCHANGED <<phase, hittables, new_calls, sort_calls, world, queryVars, traceVars,
                   renderVars, callVars>>

\* a call on any other length: box, axis, sort_by, then the call on objects[..mid]
BVHNewSplit ==
    /\ phase = "build"
    /\ Top(stack).pc = "enter"
    /\ Top(stack).n \notin {1, 2}
    /\ Len(stack) < MaxStack
    /\ \E f \in {Top(stack)} :
       \E box \in {SliceBox(hittables.objects, f.lo, f.n)} :
       \E sorted \in {SortSlice(hittables.objects, f.lo, f.n, longest_axis(box))} :
           /\ hittables' = [hittables EXCEPT !.objects = sorted]
           /\ stack' = Append(SetTop(stack, [f EXCEPT !.pc = "left", !.bounding_box = box]),
                              Frame(f.lo, Mid(f.n)))
    /\ sort_calls' = sort_calls + 1
    /\ new_calls' = new_calls + 1
    /\ UNCHANGED <<phase, world, queryVars, traceVars, renderVars, callVars>>

\* the same call when the stack has no room for the callee: the process dies
BVHNewStackOverflow ==
    /\ phase = "build"
    /\ Top(stack).pc = "enter"
    /\ Top(stack).n \notin {1, 2}
    /\ Len(stack) >= MaxStack
    /\ \E f \in {Top(stack)} :
       \E box \in {SliceBox(hittables.objects, f.lo, f.n)} :
       \E sorted \in {SortSlice(hittables.objects, f.lo, f.n, longest_axis(box))} :
           hittables' = [hittables EXCEPT !.objects = sorted]
    /\ sort_calls' = sort_calls + 1
    /\ phase' = "overflow"
    /\ UNCHANGED <<stack, new_calls, world, queryVars, traceVars, renderVars, callVars>>

\* a call returns its node: to main, or to the caller, which goes on with the
\* call on objects[mid..] or with building its own node
BVHNewReturn ==
    /\ phase = "build"
    /\ Top(stack).pc = "ret"
    /\ LET f == Top(stack)
           node == BVHNode(f.left, f.right, f.bounding_box)
       IN  IF Len(stack) = 1
           THEN /\ world' = node
                /\ phase' = "ready"
                /\ stack' = <<>>
                /\ UNCHANGED new_calls
           ELSE LET g == stack[Len(stack) - 1]
                IN  IF g.pc = "left"
                    THEN /\ stack' = Append(SetTop(Pop(stack),
                                                   [g EXCEPT !.left = node, !.pc = "right"]),
                                            Frame(g.lo + Mid(g.n), g.n - Mid(g.n)))
                         /\ new_calls' = new_calls + 1
                         /\ UNCHANGED <<world, phase>>
                    ELSE /\ stack' = SetTop(Pop(stack),
                                            [g EXCEPT !.right = node, !.pc = "ret"])
                         /\ UNCHANGED <<world, phase, new_calls>>
    /\ UNCHANGED <<hittables, sort_calls, queryVars, traceVars, renderVars, callVars>>

----------------------------------------------------------------------------
(* Hit queries on the list and on the BVH built from it *)

CastRay(r, tr) ==
    /\ phase = "ready"
    /\ ExactRay(hittables.objects, r)
    /\ phase' = "query"
    /\ ray' = r
    /\ t_range' = tr
    /\ UNCHANGED <<hittables, buildVars, list_hit, bvh_hit, traceVars, renderVars, callVars>>

ListHitQuery ==
    /\ phase = "query"
    /\ list_hit = Unset
    /\ list_hit' = HittableListHit(hittables, ray, t_range)
    /\ UNCHANGED <<phase, hittables, buildVars, ray, t_range, bvh_hit, traceVars, renderVars, callVars>>

BVHHitQuery ==
    /\ phase = "query"
    /\ bvh_hit = Unset
    /\ bvh_hit' = BVHNodeHit(world, ray, t_range)
    /\ UNCHANGED <<phase, hittables, buildVars, ray, t_range, list_hit, traceVars, renderVars, callVars>>

----------------------------------------------------------------------------
(* ray_color, one call per stack frame *)

RcFrame(r, depth) ==
    [ray |-> r, depth |-> depth, pc |-> "enter", hit |-> None, scatter |-> NoScatter,
     inner |-> ZERO, value |-> ZERO]

\* the interval ray_color queries the world over
RayColorRange == Interval(TMin, PInf)

\* a cutoff one level too late
DepthExhaustedLate(depth) == depth < 0

\* depth <= 0
DepthExhausted(depth) == depth <= 0

\* the depth handed to the recursive call
NextDepth(depth) == depth - 1

\* the sum with the attenuation left out
RayColorCombineNoAttenuation(color_from_emission, attenution, inner) ==
    VAdd(color_from_emission, inner)

\* color_from_emission + attenution * ray_color(scattered_ray, ...)
RayColorCombine(color_from_emission, attenution, inner) ==
    VAdd(color_from_emission, VMul(attenution, inner))

\* main hands a ray and max_depth to ray_color (as render's workers do)
RayColorCall(r, depth) ==
    /\ phase = "ready"
    /\ ExactRay(hittables.objects, r)
    /\ phase' = "trace"
    /\ ray' = r
    /\ rc_depth' = depth
    /\ rc_stack' = <<RcFrame(r, depth)>>
    /\ UNCHANGED <<hittables, buildVars, t_range, list_hit, bvh_hit, rc_queries, rc_result,
                   renderVars, callVars>>

\* the cutoff: return Vec3::ZERO before anything else
RayColorCutoff ==
    /\ phase = "trace"
    /\ Top(rc_stack).pc = "enter"
    /\ DepthExhausted(Top(rc_stack).depth)
    /\ rc_stack' = SetTop(rc_stack, [Top(rc_stack) EXCEPT !.pc = "ret", !.value = ZERO])
    /\ UNCHANGED <<phase, hittables, buildVars, queryVars, rc_depth, rc_queries, rc_result,
                   renderVars, callVars>>

\* world.hit misses: the background color
RayColorMiss ==
    /\ phase = "trace"
    /\ Top(rc_stack).pc = "enter"
    /\ ~DepthExhausted(Top(rc_stack).depth)
    /\ ~BVHNodeHit(world, Top(rc_stack).ray, RayColorRange).info.some
    /\ rc_queries' = rc_queries + 1
    /\ rc_stack' = SetTop(rc_stack,
            [Top(rc_stack) EXCEPT !.pc = "ret", !.value = background_color])
    /\ UNCHANGED <<phase, hittables, buildVars, queryVars, rc_depth, rc_result, renderVars, callVars>>

\* world.hit hits: emitted, then scatter with the random vector rnd it draws;
\* no scatter returns the emission, a scatter calls ray_color on the new ray
RayColorHit(rnd) ==
    /\ phase = "trace"
    /\ Top(rc_stack).pc = "enter"
    /\ ~DepthExhausted(Top(rc_stack).depth)
    /\ \E f \in {Top(rc_stack)} :
       \E info \in {BVHNodeHit(world, f.ray, RayColorRange).info} :
         /\ info.some
         /\ \E sc \in {Scatter(info.material, f.ray, info, rnd)} :
              IF sc.some
              THEN /\ ExactRay(hittables.objects, sc.ray)
                   /\ rc_stack' = Append(
                          SetTop(rc_stack, [f EXCEPT !.pc = "wait", !.hit = info,
                                                     !.scatter = sc]),
                          RcFrame(sc.ray, NextDepth(f.depth)))
              ELSE rc_stack' = SetTop(rc_stack,
                          [f EXCEPT !.pc = "ret", !.hit = info,
                                    !.value = Emitted(info.material, info)])
    /\ rc_queries' = rc_queries + 1
    /\ UNCHANGED <<phase, hittables, buildVars, queryVars, rc_depth, rc_result, renderVars, callVars>>

\* a call returns: to main, or into the caller's sum
RayColorReturn ==
    /\ phase = "trace"
    /\ Top(rc_stack).pc = "ret"
    /\ IF Len(rc_stack) = 1
       THEN /\ rc_result' = Top(rc_stack).value
            /\ rc_stack' = <<>>
            /\ phase' = "traced"
       ELSE /\ LET g == rc_stack[Len(rc_stack) - 1]
                   v == Top(rc_stack).value
               IN  rc_stack' = SetTop(Pop(rc_stack),
                       [g EXCEPT !.pc = "ret", !.inner = v,
                                 !.value = RayColorCombine(
                                     Emitted(g.hit.material, g.hit), g.scatter.attenuation, v)])
            /\ UNCHANGED <<phase, rc_result>>
    /\ UNCHANGED <<hittables, buildVars, queryVars, rc_depth, rc_queries, renderVars, callVars>>

----------------------------------------------------------------------------
(* The scene specification *)

RenderOff ==
    /\ r_in = [samples |-> 0, thread_count |-> 1, width |-> 0, height |-> 0]
    /\ r_pc = "off"
    /\ r_i = 0
    /\ colors = <<>>
    /\ workers = <<>>
    /\ screen = <<>>
    /\ writes = <<>>
    /\ run = 0
    /\ first_screen = <<>>

SceneStart ==
    /\ hittables = HittableListNew
    /\ stack = <<>>
    /\ new_calls = 0
    /\ sort_calls = 0
    /\ world = None
    /\ ray = None
    /\ t_range = RayColorRange
    /\ list_hit = Unset
    /\ bvh_hit = Unset
    /\ rc_stack = <<>>
    /\ rc_depth = 0
    /\ rc_queries = 0
    /\ rc_result = None

\* no pure function is being called
CallsOff ==
    /\ call = [fn |-> "none"]
    /\ ret = None

Init ==
    /\ phase = "scene"
    /\ SceneStart
    /\ RenderOff
    /\ CallsOff

Next ==
    \/ \E obj \in Surfaces : Add(obj)
    \/ FromHittableList
    \/ BVHNewLeaf
    \/ BVHNewSplit
    \/ BVHNewStackOverflow
    \/ BVHNewReturn
    \/ \E r \in Rays, tr \in TRanges : CastRay(r, tr)
    \/ ListHitQuery
    \/ BVHHitQuery
    \/ \E r \in Rays, depth \in 0..MaxDepth : RayColorCall(r, depth)
    \/ RayColorCutoff
    \/ RayColorMiss
    \/ \E rnd \in UnitVectors : RayColorHit(rnd)
    \/ RayColorReturn

Spec == Init /\ [][Next]_vars

\* BVHNode::new runs on main's thread, which goes on while it has a step
BuildStep ==
    \/ BVHNewLeaf
    \/ BVHNewSplit
    \/ BVHNewStackOverflow
    \/ BVHNewReturn

FairSpec == Spec /\ WF_vars(BuildStep)

----------------------------------------------------------------------------
(* Claims on the scene specification *)

QueryDone == phase = "query" /\ list_hit # Unset /\ bvh_hit # Unset

\* C1: for every non-empty set of spheres and quads, every ray and every
\* query interval, BVHNode::hit on the BVH built from the set and
\* HittableList::hit on the list agree: both miss, or both hit at the same t.
C1_BVHAgreesWithList ==
    QueryDone =>
        /\ list_hit.info.some = bvh_hit.info.some
        /\ list_hit.info.some => list_hit.info.t = bvh_hit.info.t

MissesEveryBox ==
    \A k \in 1..Len(hittables.objects) :
        ~AABBHit(hittables.objects[k].bounding_box, ray, t_range)

\* C9 as stated: a ray that misses the bounding box of every surface stored in
\* the BVH gets no hit from BVHNode::hit, and no Sphere::hit or Quad::hit is
\* invoked during the query.
C9_MissingEveryBoxInvokesNoLeaf ==
    (phase = "query" /\ bvh_hit # Unset /\ MissesEveryBox) =>
        (~bvh_hit.info.some /\ bvh_hit.calls = 0)

\* C9 as amended: a ray that misses the bounding box of the BVH node queried
\* (the union of its surfaces' boxes) gets no hit from BVHNode::hit, and no
\* Sphere::hit or Quad::hit is invoked during the query.
C9_MissingRootBoxInvokesNoLeaf ==
    (phase = "query" /\ bvh_hit # Unset /\ ~AABBHit(world.bounding_box, ray, t_range)) =>
        (~bvh_hit.info.some /\ bvh_hit.calls = 0)

\* a query on a BVH of three surfaces whose root box the ray misses, while
\* the list scan of the same ray invoked every member
C9_Witness ==
    /\ QueryDone
    /\ Len(hittables.objects) = 3
    /\ ~AABBHit(world.bounding_box, ray, t_range)
    /\ bvh_hit.calls = 0
    /\ list_hit.calls = 3

\* C10: BVHNode::new on a slice of length 0 reaches an error state at once:
\* it does not sort, makes no recursive call, and returns no node.
C10_EmptySliceFailsAtOnce ==
    (phase # "scene" /\ Len(hittables.objects) = 0) =>
        /\ sort_calls = 0
        /\ new_calls = 1
        /\ world = None
        /\ phase = "build" => (Len(stack) = 1 /\ Top(stack).pc = "enter")

WorldHit(r) == BVHNodeHit(world, r, Interval(TMin, PInf)).info

\* C6: for depth >= 1 a ray_color call returns the background color when the
\* query of the world over (0.001, +inf) misses, the emission of the hit alone
\* when the hit material does not scatter, and the emission plus the
\* component-wise product of the attenuation and the value of
\* ray_color(scattered_ray, depth - 1) when it scatters.
C6_RayColorCases ==
    phase = "trace" =>
        \A k \in 1..Len(rc_stack) :
            LET f == rc_stack[k]
                h == WorldHit(f.ray)
            IN  /\ (f.pc = "ret" /\ f.depth >= 1) =>
                     IF ~h.some THEN f.value = background_color
                     ELSE IF ~f.scatter.some
                          THEN /\ f.value = Emitted(h.material, h)
                               /\ \E rnd \in UnitVectors :
                                    ~Scatter(h.material, f.ray, h, rnd).some
                          ELSE f.value = VAdd(Emitted(h.material, h),
                                              VMul(f.scatter.attenuation, f.inner))
                /\ f.pc = "wait" =>
                     /\ f.depth >= 1
                     /\ h.some
                     /\ \E rnd \in UnitVectors : f.scatter = Scatter(h.material, f.ray, h, rnd)
                     /\ rc_stack[k + 1].ray = f.scatter.ray
                     /\ rc_stack[k + 1].depth = f.depth - 1

\* a call that scattered, whose inner call came back with a color that the
\* attenuation changes, about to return
C6_Witness ==
    /\ phase = "trace"
    /\ Len(rc_stack) = 1
    /\ rc_stack[1].pc = "ret"
    /\ rc_stack[1].scatter.some
    /\ rc_stack[1].inner # ZERO
    /\ rc_stack[1].value # rc_stack[1].inner

\* the innermost ray_color call has a next step
RayColorCanStep ==
    /\ Len(rc_stack) >= 1
    /\ LET f == Top(rc_stack)
       IN  \/ f.pc = "ret"
           \/ /\ f.pc = "enter"
              /\ \/ DepthExhausted(f.depth)
                 \/ ~WorldHit(f.ray).some
                 \/ \E rnd \in UnitVectors :
                        LET sc == Scatter(WorldHit(f.ray).material, f.ray, WorldHit(f.ray), rnd)
                        IN  sc.some => ExactRay(hittables.objects, sc.ray)

\* C7: ray_color(ray, depth) makes at most depth queries of the scene and at
\* most depth nested recursive calls, each with a depth one less than its
\* caller's and never below zero; until it has returned it can always take a
\* step; and a call with depth 0 returns zero radiance without any query.
C7_RayColorBounded ==
    /\ rc_queries <= rc_depth
    /\ Len(rc_stack) <= rc_depth + 1
    /\ \A k \in 1..Len(rc_stack) : rc_stack[k].depth = rc_depth - (k - 1)
    /\ phase = "trace" => RayColorCanStep
    /\ (phase = "traced" /\ rc_depth = 0) => (rc_result = ZERO /\ rc_queries = 0)

\* a call tree that used its whole budget: as many queries as the depth
C7_Witness ==
    /\ phase = "traced"
    /\ rc_depth >= 2
    /\ rc_queries = rc_depth

\* a depth-0 call on a ray that hits an emitter in the world
C7_WitnessEmitter ==
    /\ phase = "traced"
    /\ rc_depth = 0
    /\ WorldHit(ray).some
    /\ WorldHit(ray).material.kind = "DiffuseLight"

SingleLightQuad ==
    /\ Len(hittables.objects) = 1
    /\ hittables.objects[1].kind = "quad"
    /\ hittables.objects[1].material.kind = "DiffuseLight"

\* C8: when the scene is one quad with a DiffuseLight material, queried
\* through the BVH built from it, with max_depth >= 1: the radiance of a ray
\* that intersects the quad at t > 0.001 is the light's color, and that of a
\* ray that misses the quad is the background color.
C8_SingleLightQuadRadiance ==
    (phase = "traced" /\ SingleLightQuad /\ rc_depth >= 1) =>
        rc_result = IF QuadHit(hittables.objects[1], ray, Interval(TMin, PInf)).some
                    THEN hittables.objects[1].material.color
                    ELSE background_color

----------------------------------------------------------------------------
(* render: the coordinating thread and the workers it spawns *)

MaxSamples == 4    \* samples
MaxThreads == 3    \* thread_count

ScreenSizes == {<<1, 1>>, <<2, 1>>}

\* the values ray_color returns for the workers' camera rays
Radiances == {Vec3(1, 0, 2), Vec3(0, 1, 0)}

\* A buffer entry is the Vec3 sum, with the number of ray_color values added
\* into it so far (n is history only: no code reads it).
Acc(sum, n) == [sum |-> sum, n |-> n]
AccZERO == Acc(ZERO, 0)
AccAdd(a, b) == Acc(VAdd(a.sum, b.sum), a.n + b.n)

PixelCount(in) == in.width * in.height
Buffer(in) == [p \in 1..PixelCount(in) |-> AccZERO]

\* base_samples_per_thread + (i < thread_with_extra_sample) as u32
SamplesInThreadOffByOne(samples, thread_count, i) ==
    (samples \div thread_count) + (IF i <= samples % thread_count THEN 1 ELSE 0)

SamplesInThread(samples, thread_count, i) ==
    (samples \div thread_count) + (IF i < samples % thread_count THEN 1 ELSE 0)

\* the spawn loop ends one handle short
LastSpawnEarly(i, thread_count) == i + 2 >= thread_count

\* for i in 0..thread_count: i was the last index
LastSpawn(i, thread_count) == i + 1 = thread_count

\* a join that does not wait for the thread to finish
JoinReturnsAtOnce(worker) == TRUE

\* h.join() returns once the thread has finished
JoinReturns(worker) == worker.state = "finished"

\* the reduction keeps only the buffer joined last
ReduceOverwrite(acc, colors_local) == colors_local

\* colors.iter().zip(colors_local.iter()).map(|(a, b)| *a + *b).collect()
Reduce(acc, colors_local) ==
    [p \in 1..(IF Len(acc) <= Len(colors_local) THEN Len(acc) ELSE Len(colors_local)) |->
        AccAdd(acc[p], colors_local[p])]

\* sqrt(sum / samples) * 255.99 as u8 for one channel: the cast truncates and
\* saturates, and turns NaN (0 / 0) into 0; the gamma step maps NaN to 0 too
ChannelToU8(c, samples) ==
    IF samples = 0 \/ c <= 0 THEN 0
    ELSE CHOOSE q \in 0..255 :
            /\ 100 * q * q * samples <= 6553088 * c
            /\ q < 255 => 100 * (q + 1) * (q + 1) * samples > 6553088 * c

ToPixel(sum, samples) ==
    <<ChannelToU8(sum[1], samples), ChannelToU8(sum[2], samples),
      ChannelToU8(sum[3], samples)>>

Worker(samples_in_thread, in) ==
    [state |-> "running", samples_in_thread |-> samples_in_thread,
     pixel |-> 0, done |-> 0, colors_local |-> Buffer(in)]

\* the loops of a worker are over once every pixel had its samples
WorkerAtEnd(w) ==
    workers[w].samples_in_thread = 0 \/ workers[w].pixel = PixelCount(r_in)

\* an iteration of the spawn loop
Spawn ==
    /\ r_pc = "spawn"
    /\ workers' = Append(workers,
            Worker(SamplesInThread(r_in.samples, r_in.thread_count, r_i), r_in))
    /\ IF LastSpawn(r_i, r_in.thread_count)
       THEN r_pc' = "join" /\ r_i' = 0
       ELSE r_pc' = r_pc /\ r_i' = r_i + 1
    /\ UNCHANGED <<r_in, colors, screen, writes, sceneVars, runVars, callVars>>

\* worker w: one iteration of the innermost loop, c being ray_color's value
WorkerSample(w, c) ==
    /\ w \in 1..Len(workers)
    /\ workers[w].state = "running"
    /\ ~WorkerAtEnd(w)
    /\ LET me == workers[w]
           p == me.pixel + 1
           last == me.done + 1 = me.samples_in_thread
       IN  workers' = [workers EXCEPT ![w] =
               [me EXCEPT !.colors_local[p] = AccAdd(@, Acc(c, 1)),
                          !.done = IF last THEN 0 ELSE me.done + 1,
                          !.pixel = IF last THEN me.pixel + 1 ELSE me.pixel]]
    /\ UNCHANGED <<r_in, r_pc, r_i, colors, screen, writes, sceneVars, runVars, callVars>>

\* worker w returns colors_local
WorkerFinish(w) ==
    /\ w \in 1..Len(workers)
    /\ workers[w].state = "running"
    /\ WorkerAtEnd(w)
    /\ workers' = [workers EXCEPT ![w].state = "finished"]
    /\ UNCHANGED <<r_in, r_pc, r_i, colors, screen, writes, sceneVars, runVars, callVars>>

\* an iteration of the join loop over the handles: join, then reduce
Join ==
    /\ r_pc = "join"
    /\ JoinReturns(workers[r_i + 1])
    /\ colors' = Reduce(colors, workers[r_i + 1].colors_local)
    /\ IF r_i + 1 = Len(workers)
       THEN /\ r_pc' = IF PixelCount(r_in) = 0 THEN "done" ELSE "write"
            /\ r_i' = 0
       ELSE r_pc' = r_pc /\ r_i' = r_i + 1
    /\ UNCHANGED <<r_in, workers, screen, writes, sceneVars, runVars, callVars>>

\* an iteration of the loops that write the screen
WritePixel ==
    /\ r_pc = "write"
    /\ screen' = [screen EXCEPT ![r_i + 1] = ToPixel(colors[r_i + 1].sum, r_in.samples)]
    /\ writes' = [writes EXCEPT ![r_i + 1] = @ + 1]
    /\ IF r_i + 1 = PixelCount(r_in)
       THEN r_pc' = "done" /\ r_i' = 0
       ELSE r_pc' = r_pc /\ r_i' = r_i + 1
    /\ UNCHANGED <<r_in, colors, workers, sceneVars, runVars, callVars>>

InitRender ==
    /\ phase = "off"
    /\ SceneStart
    /\ r_in \in {[samples |-> sa, thread_count |-> tc, width |-> wh[1], height |-> wh[2]] :
                    sa \in 0..MaxSamples, tc \in 1..MaxThreads, wh \in ScreenSizes}
    /\ r_pc = "spawn"
    /\ r_i = 0
    /\ colors = Buffer(r_in)
    /\ workers = <<>>
    /\ screen = [p \in 1..PixelCount(r_in) |-> <<0, 0, 0>>]
    /\ writes = [p \in 1..PixelCount(r_in) |-> 0]
    /\ run = 1
    /\ first_screen = <<>>
    /\ CallsOff

MainStep ==
    \/ Spawn
    \/ Join
    \/ WritePixel

WorkerStep(w) ==
    \/ \E c \in Radiances : WorkerSample(w, c)
    \/ WorkerFinish(w)

NextRender ==
    \/ MainStep
    \/ \E w \in 1..MaxThreads : WorkerStep(w)

SpecRender == InitRender /\ [][NextRender]_vars

\* the scheduler runs every thread that can run
FairSpecRender ==
    /\ SpecRender
    /\ WF_vars(MainStep)
    /\ \A w \in 1..MaxThreads : WF_vars(WorkerStep(w))

----------------------------------------------------------------------------
(* Dielectric::scatter, on a direction of integer length and an axis normal: *)
(* every quantity is then a ratio of integers, kept as [num, den]            *)

Rat(num, den) == [num |-> num, den |-> den]
RatGt(a, b) == a.num * b.den > b.num * a.den

Dielectric(ior) == [kind |-> "Dielectric", ior |-> ior]

Pow5(x) == x * x * x * x * x

\* Schlick's approximation: r0 + (1 - r0) * (1 - cos_theta)^5 with
\* r0 = ((1 - ior) / (1 + ior))^2
reflectance(cos_theta, ior) ==
    LET r0 == Rat((ior.den - ior.num) * (ior.den - ior.num),
                  (ior.den + ior.num) * (ior.den + ior.num))
        x == Rat(Pow5(cos_theta.den - cos_theta.num), Pow5(cos_theta.den))
    IN  Rat(r0.num * x.den + (r0.den - r0.num) * x.num, r0.den * x.den)

\* numerator over (unit.den * ior_ratio.den)^2 of 1 - dir_out_perp.length_squared()
RefractedRadicand(unit, normal, ior_ratio) ==
    LET cos_tetha == dot(VNeg(unit.num), normal)
        perp == VScale(VAdd(unit.num, VScale(normal, cos_tetha)), ior_ratio.num)
        den == unit.den * ior_ratio.den
    IN  den * den - length_squared(perp)

\* refracted without the component along the normal
refractedPerpOnly(unit, normal, ior_ratio) ==
    LET cos_tetha == dot(VNeg(unit.num), normal)
        perp == VScale(VAdd(unit.num, VScale(normal, cos_tetha)), ior_ratio.num)
    IN  Rat(perp, unit.den * ior_ratio.den)

\* Vec3::refracted of the unit vector unit.num / unit.den
refracted(unit, normal, ior_ratio) ==
    LET cos_tetha == dot(VNeg(unit.num), normal)
        perp == VScale(VAdd(unit.num, VScale(normal, cos_tetha)), ior_ratio.num)
        den == unit.den * ior_ratio.den
        root == Sqrt(RefractedRadicand(unit, normal, ior_ratio))
    IN  Rat(VSub(perp, VScale(normal, root)), den)

\* ri * sin_theta > 1.0, both sides squared (ri > 0, sin_theta >= 0)
CannotRefract(ri, cos_theta) ==
    ri.num * ri.num * (cos_theta.den * cos_theta.den - cos_theta.num * cos_theta.num)
        > ri.den * ri.den * cos_theta.den * cos_theta.den

\* Dielectric::scatter with the value rnd of the uniform draw; the fields
\* cannot_refract and reflect tell the branch that gave the direction
DielectricScatter(m, ray_in, info, rnd) ==
    LET ri == IF info.front_face THEN Rat(m.ior.den, m.ior.num) ELSE m.ior
        unit_dir == Rat(ray_in.direction, length(ray_in.direction))
        cos_theta == Rat(dot(VNeg(unit_dir.num), info.normal), unit_dir.den)
        cannot_refract == CannotRefract(ri, cos_theta)
        reflect == cannot_refract \/ RatGt(reflectance(cos_theta, ri), rnd)
        direction == IF reflect
                     THEN Rat(reflected(unit_dir.num, info.normal), unit_dir.den)
                     ELSE refracted(unit_dir, info.normal, ri)
    IN  [some |-> TRUE, attenuation |-> ONE, ray |-> Ray(info.point, direction),
         cannot_refract |-> cannot_refract, reflect |-> reflect]

\* the inputs on which scatter computes without rounding
ExactOnDielectric(m, ray_in, info) ==
    LET ri == IF info.front_face THEN Rat(m.ior.den, m.ior.num) ELSE m.ior
        unit_dir == Rat(ray_in.direction, length(ray_in.direction))
        cos_theta == Rat(dot(VNeg(unit_dir.num), info.normal), unit_dir.den)
    IN  \/ CannotRefract(ri, cos_theta)
        \/ IsSquare(RefractedRadicand(unit_dir, info.normal, ri))

----------------------------------------------------------------------------
(* Single calls: Dielectric::scatter, AABB::longest_axis, and the sort of    *)
(* BVHNode::new on a slice of three                                          *)

\* values of rand::thread_rng().gen::<f32>(), in [0, 1)
Rnds == {Rat(k, 100) : k \in {0, 1, 50, 99}}
Iors == {Rat(1, 1), Rat(3, 2)}
ScatterDirections ==
    {Vec3(0, 0, -1), Vec3(0, 0, -2), Vec3(3, 0, -4), Vec3(-4, 0, -3), Vec3(0, 5, -12),
     Vec3(3, 4, 0), Vec3(0, -4, 3), Vec3(-12, 0, 5)}
ScatterPoint == Vec3(0, 0, 0)

MaxSize == 2
Boxes ==
    {AABB(Interval(0, sx), Interval(-1, sy - 1), Interval(1, sz + 1)) :
        sx \in 0..MaxSize, sy \in 0..MaxSize, sz \in 0..MaxSize} \cup {AABBEMPTY}

\* surfaces known by their bounding boxes only
Stub(box) == [kind |-> "stub", bounding_box |-> box]
StubBoxes ==
    {AABB(Interval(0, 1), Interval(2, 5), Interval(1, 2)),
     AABB(Interval(1, 2), Interval(0, 1), Interval(0, 1)),
     AABB(Interval(-1, 0), Interval(1, 2), Interval(2, 6)),
     AABB(Interval(3, 3), Interval(-1, 0), Interval(-1, 0))}

DielectricScatterCall(m, ray_in, info, rnd) ==
    /\ call.fn = "none"
    /\ ExactOnDielectric(m, ray_in, info)
    /\ call' = [fn |-> "Dielectric::scatter", self |-> m, ray_in |-> ray_in,
                hit_info |-> info, rnd |-> rnd]
    /\ ret' = DielectricScatter(m, ray_in, info, rnd)
    /\ UNCHANGED <<sceneVars, renderVars>>

LongestAxisCall(box) ==
    /\ call.fn = "none"
    /\ call' = [fn |-> "AABB::longest_axis", self |-> box]
    /\ ret' = longest_axis(box)
    /\ UNCHANGED <<sceneVars, renderVars>>

\* BVHNode::new on a slice of three, up to and including sort_by
SortCall(objects) ==
    /\ call.fn = "none"
    /\ call' = [fn |-> "BVHNode::new", objects |-> objects]
    /\ ret' = LET box == SliceBox(objects, 1, Len(objects))
              IN  [axis |-> longest_axis(box),
                   objects |-> SortSlice(objects, 1, Len(objects), longest_axis(box))]
    /\ UNCHANGED <<sceneVars, renderVars>>

InitCalls ==
    /\ phase = "off"
    /\ SceneStart
    /\ RenderOff
    /\ CallsOff

NextCalls ==
    \/ \E ior \in Iors, d \in ScatterDirections, n \in UnitVectors,
          front_face \in BOOLEAN, rnd \in Rnds :
            /\ dot(d, n) < 0
            /\ DielectricScatterCall(Dielectric(ior), Ray(ScatterPoint, d),
                   HitInfo(Dielectric(ior), TScale, ScatterPoint, n, front_face), rnd)
    \/ \E box \in Boxes : LongestAxisCall(box)
    \/ \E b1 \in StubBoxes, b2 \in StubBoxes, b3 \in StubBoxes :
            SortCall(<<Stub(b1), Stub(b2), Stub(b3)>>)

SpecCalls == InitCalls /\ [][NextCalls]_vars

----------------------------------------------------------------------------
(* render invoked twice on the same scene and camera by one thread *)

\* the process runs render again with the arguments of the first run, on a
\* fresh Screen::new; the generator behind camera.get_ray and the materials
\* is rand::thread_rng(), which takes no seed, so the radiance of each sample
\* of the second run is drawn anew (the c of WorkerSample)
RenderAgain ==
    /\ r_pc = "done"
    /\ run = 1
    /\ first_screen' = screen
    /\ run' = 2
    /\ r_pc' = "spawn"
    /\ r_i' = 0
    /\ colors' = Buffer(r_in)
    /\ workers' = <<>>
    /\ screen' = [p \in 1..PixelCount(r_in) |-> <<0, 0, 0>>]
    /\ writes' = [p \in 1..PixelCount(r_in) |-> 0]
    /\ UNCHANGED <<r_in, sceneVars, callVars>>

InitRenderTwice ==
    /\ InitRender
    /\ r_in.thread_count = 1

NextRenderTwice ==
    \/ MainStep
    \/ \E w \in 1..MaxThreads : WorkerStep(w)
    \/ RenderAgain

SpecRenderTwice == InitRenderTwice /\ [][NextRenderTwice]_vars

----------------------------------------------------------------------------
(* Claims on render *)

RECURSIVE SumTo(_, _)
\* f[1] + ... + f[n]
SumTo(f, n) == IF n = 0 THEN 0 ELSE SumTo(f, n - 1) + f[n]

RECURSIVE VSumTo(_, _)
VSumTo(f, n) == IF n = 0 THEN ZERO ELSE VAdd(VSumTo(f, n - 1), f[n])

AllSpawned == r_pc # "spawn"
Joined(w) == r_pc \in {"write", "done"} \/ (r_pc = "join" /\ w <= r_i)

\* C2: for samples >= 0 and thread_count >= 1 render gives worker i
\* samples / thread_count samples, plus one if i < samples mod thread_count:
\* the counts sum to samples, differ by at most one, the extra ones are with
\* the first samples mod thread_count workers; 101 over 8 is
\* 13,13,13,13,13,12,12,12.
C2_SamplePartition ==
    /\ \A w \in 1..Len(workers) :
          workers[w].samples_in_thread =
              (r_in.samples \div r_in.thread_count)
                  + (IF w - 1 < r_in.samples % r_in.thread_count THEN 1 ELSE 0)
    /\ AllSpawned =>
          /\ Len(workers) = r_in.thread_count
          /\ SumTo([w \in 1..Len(workers) |-> workers[w].samples_in_thread], Len(workers))
                = r_in.samples
          /\ \A v, w \in 1..Len(workers) :
                /\ workers[v].samples_in_thread - workers[w].samples_in_thread \in {-1, 0, 1}
                /\ v < w => workers[v].samples_in_thread >= workers[w].samples_in_thread
          /\ Cardinality({w \in 1..Len(workers) :
                            workers[w].samples_in_thread > workers[Len(workers)].samples_in_thread})
                = r_in.samples % r_in.thread_count
    /\ [i \in 1..8 |-> SamplesInThread(101, 8, i - 1)] = <<13, 13, 13, 13, 13, 12, 12, 12>>

\* every worker spawned, with a remainder: one worker has a sample more
C2_Witness ==
    /\ AllSpawned
    /\ Len(workers) >= 2
    /\ r_in.samples >= 3
    /\ workers[1].samples_in_thread = workers[Len(workers)].samples_in_thread + 1

\* C3: once render has joined every worker, the reduced buffer holds for every
\* pixel the sum over the workers of the worker's partial sum for the pixel,
\* and the number of radiance samples accumulated into each pixel is
\* samples_per_pixel, whatever the interleaving and the order of finishing.
C3_ReductionComplete ==
    r_pc \in {"write", "done"} =>
        \A p \in 1..PixelCount(r_in) :
            /\ colors[p].sum =
                  VSumTo([w \in 1..Len(workers) |-> workers[w].colors_local[p].sum],
                         Len(workers))
            /\ colors[p].n = r_in.samples
            /\ \A w \in 1..Len(workers) :
                  workers[w].colors_local[p].n = workers[w].samples_in_thread

\* a finished render of two workers that both contributed to a pixel
C3_Witness ==
    /\ r_pc = "done"
    /\ Len(workers) = 2
    /\ workers[1].colors_local[1].sum # ZERO
    /\ workers[2].colors_local[1].sum # ZERO
    /\ workers[1].colors_local[1].sum # workers[2].colors_local[1].sum

C4_Safety ==
    /\ Len(workers) <= r_in.thread_count
    /\ AllSpawned => Len(workers) = r_in.thread_count
    /\ \A p \in 1..PixelCount(r_in) :
          /\ writes[p] <= 1
          /\ writes[p] > 0 =>
                /\ Len(workers) = r_in.thread_count
                /\ \A w \in 1..Len(workers) : workers[w].state = "finished" /\ Joined(w)

C4_Returned ==
    /\ r_pc = "done"
    /\ \A p \in 1..PixelCount(r_in) : writes[p] = 1

\* C4: one render invocation spawns exactly thread_count worker threads, no
\* pixel of the screen is written before every one of them has run to
\* completion and been joined, and, the threads being scheduled fairly,
\* render eventually has written every pixel exactly once and returned.
C4_SpawnJoinWrite == []C4_Safety /\ <>C4_Returned

\* render returned from a run of two workers with samples on two pixels
C4_Witness ==
    /\ C4_Returned
    /\ Len(workers) = 2
    /\ PixelCount(r_in) = 2
    /\ r_in.samples >= 2

\* C5: during the sampling phase a step of a worker changes nothing but that
\* worker's own state and local buffer (not the reduced buffer, the scene, the
\* screen, or another worker's buffer), and the coordinating thread reads a
\* worker's buffer, in the reduction, only once that worker has finished.
C5_WorkerIsolation ==
    [][/\ \A w \in 1..Len(workers) :
            workers'[w] # workers[w] =>
                /\ colors' = colors
                /\ screen' = screen
                /\ hittables' = hittables
                /\ world' = world
                /\ \A v \in 1..Len(workers) : v # w => workers'[v] = workers[v]
       /\ colors' # colors =>
            /\ r_pc = "join"
            /\ workers[r_i + 1].state = "finished"
            /\ workers' = workers
       /\ \A w \in 1..Len(workers) : Joined(w)' => workers[w].state = "finished"
      ]_vars

\* the coordinating thread waits at the join of the first worker, which is
\* still sampling, while the second has finished
C5_Witness ==
    /\ r_pc = "join"
    /\ r_i = 0
    /\ Len(workers) = 2
    /\ workers[1].state = "running"
    /\ workers[1].colors_local[1].n > 0
    /\ workers[2].state = "finished"
    /\ workers[2].colors_local[1].n > 0

\* C11: rendering the same scene and camera twice with thread_count = 1 gives
\* identical output buffers: every pixel of the second screen equals the
\* pixel of the first.
C11_TwoRunsSameScreen ==
    (run = 2 /\ r_pc = "done") => screen = first_screen

----------------------------------------------------------------------------
(* Claims on single calls *)

\* the normalized incoming direction of the call, and 1 - cos_theta to the fifth
CallUnitDir == Rat(call.ray_in.direction, length(call.ray_in.direction))
CallCos == Rat(dot(VNeg(call.ray_in.direction), call.hit_info.normal), CallUnitDir.den)
SameDirection(a, b) == VScale(a.num, b.den) = VScale(b.num, a.den)
DielectricCallIorOne ==
    call.fn = "Dielectric::scatter" /\ call.self.ior.num = call.self.ior.den

\* C12 as stated: for a Dielectric with ior = 1.0, whatever the incoming
\* direction, the opposing normal, the face and the uniform draw, scatter
\* does not take the total-internal-reflection branch and the outgoing
\* direction is the normalized incoming direction.
C12_IorOneNeverReflects ==
    DielectricCallIorOne =>
        /\ ~ret.cannot_refract
        /\ SameDirection(ret.ray.direction, CallUnitDir)

\* C12 as amended: for a Dielectric with ior = 1.0 scatter never takes the
\* total-internal-reflection branch; the outgoing direction is the
\* normalized incoming direction when the uniform draw is at least
\* (1 - cos_theta)^5, and its mirror reflection about the normal when the
\* draw is below it.
C12_IorOneReflectsBySchlick ==
    DielectricCallIorOne =>
        /\ ~ret.cannot_refract
        /\ IF Pow5(CallCos.den - CallCos.num) * call.rnd.den > call.rnd.num * Pow5(CallCos.den)
           THEN SameDirection(ret.ray.direction,
                    Rat(VSub(CallUnitDir.num,
                             VScale(call.hit_info.normal,
                                    2 * dot(CallUnitDir.num, call.hit_info.normal))),
                        CallUnitDir.den))
           ELSE SameDirection(ret.ray.direction, CallUnitDir)

\* an oblique ray through an ior = 1.0 surface with a draw above the
\* reflectance: it goes straight on
C12_Witness ==
    /\ DielectricCallIorOne
    /\ CallCos.num < CallCos.den
    /\ call.rnd.num > 0
    /\ ~ret.reflect
    /\ SameDirection(ret.ray.direction, CallUnitDir)

----------------------------------------------------------------------------
(* Further claims on the scene specification *)

\* the values of t at which the members of the list hit the ray of the query
\* inside its interval
MemberTs ==
    {Hit(hittables.objects[k], ray, t_range).info.t :
        k \in {j \in 1..Len(hittables.objects) :
                  Hit(hittables.objects[j], ray, t_range).info.some}}

\* C13: HittableList::hit returns no hit exactly when no member hits inside
\* t_range; otherwise its hit has a t inside t_range that is the least of
\* the members' t, in whatever order the members are.
C13_ListHitIsClosest ==
    (phase = "query" /\ list_hit # Unset) =>
        /\ list_hit.info.some <=> MemberTs # {}
        /\ list_hit.info.some =>
              /\ surrounds(t_range, list_hit.info.t)
              /\ list_hit.info.t \in MemberTs
              /\ \A t \in MemberTs : list_hit.info.t <= t

\* a list of two whose first member hits farther than its second: the
\* second member's hit is the one returned
C13_Witness ==
    /\ phase = "query"
    /\ list_hit # Unset
    /\ Len(hittables.objects) = 2
    /\ Cardinality(MemberTs) = 2
    /\ Hit(hittables.objects[1], ray, t_range).info.t
          > Hit(hittables.objects[2], ray, t_range).info.t
    /\ list_hit.info.t = Hit(hittables.objects[2], ray, t_range).info.t

\* C14: the bounding box of every Quad, axis-aligned quads included, has
\* end > start on the axis of the quad's normal and on every other axis.
C14_QuadBoxHasThickness ==
    \A k \in 1..Len(hittables.objects) :
        hittables.objects[k].kind = "quad" =>
            \A i \in 1..3 :
                hittables.objects[k].bounding_box[i].end
                    > hittables.objects[k].bounding_box[i].start

MinOf(a, b) == IF a <= b THEN a ELSE b
MaxOf(a, b) == IF a >= b THEN a ELSE b

\* the box of every node of the tree is, axis by axis, the least start and
\* the greatest end of its two children's boxes
RECURSIVE TightUnion(_)
TightUnion(node) ==
    node.kind = "bvh" =>
        /\ \A i \in 1..3 :
              /\ node.bounding_box[i].start =
                    MinOf(node.left.bounding_box[i].start, node.right.bounding_box[i].start)
              /\ node.bounding_box[i].end =
                    MaxOf(node.left.bounding_box[i].end, node.right.bounding_box[i].end)
        /\ TightUnion(node.left)
        /\ TightUnion(node.right)

\* C15: in every BVH that BVHNode::new built from a non-empty slice, the
\* bounding box of every node, at every level, is exactly the union of the
\* boxes of its two children.
C15_NodeBoxIsUnionOfChildren ==
    world # None => TightUnion(world)

\* a tree over three surfaces: an inner node on the left, and a root box
\* that is neither child's box
C15_Witness ==
    /\ world # None
    /\ Len(hittables.objects) = 3
    /\ world.left.kind = "bvh"
    /\ world.right.kind = "bvh"
    /\ world.bounding_box # world.left.bounding_box
    /\ world.bounding_box # world.right.bounding_box

\* least start and greatest end, on axis i, of the boxes of objs[1..n]
RECURSIVE LeastStart(_, _, _)
LeastStart(objs, n, i) ==
    IF n = 0 THEN PInf ELSE MinOf(LeastStart(objs, n - 1, i), objs[n].bounding_box[i].start)
RECURSIVE GreatestEnd(_, _, _)
GreatestEnd(objs, n, i) ==
    IF n = 0 THEN NInf ELSE MaxOf(GreatestEnd(objs, n - 1, i), objs[n].bounding_box[i].end)

C16_BoxIsUnion ==
    phase = "scene" =>
        \A i \in 1..3 :
            /\ hittables.bounding_box[i].start
                  = LeastStart(hittables.objects, Len(hittables.objects), i)
            /\ hittables.bounding_box[i].end
                  = GreatestEnd(hittables.objects, Len(hittables.objects), i)

\* C16: after any sequence of add calls on a list made by new(), the list's
\* box is the union of the boxes of the surfaces added (the EMPTY box when
\* there are none), and every add appends its surface after the members
\* already there, none of which it removes or replaces.
C16_AddAppendsAndUnions ==
    /\ []C16_BoxIsUnion
    /\ [][(phase = "scene" /\ hittables' # hittables) =>
            /\ Len(hittables'.objects) = Len(hittables.objects) + 1
            /\ SubSeq(hittables'.objects, 1, Len(hittables.objects)) = hittables.objects
            /\ hittables'.objects[Len(hittables'.objects)] \in Surfaces
         ]_vars

\* a list of three different surfaces whose box is larger than the box of
\* each of them
C16_Witness ==
    /\ phase = "scene"
    /\ Len(hittables.objects) = 3
    /\ Cardinality({hittables.objects[k] : k \in 1..3}) = 3
    /\ \A k \in 1..3 : hittables.bounding_box # hittables.objects[k].bounding_box

\* C17: when the ray hits the box of the node queried, BVHNode::hit probes
\* the left child over t_range; if that hits at t_L it probes the right
\* child over [t_range.start, t_L] and returns the right hit if there is
\* one, else the left hit; if the left child misses it returns what the
\* right child gives over t_range.  A node whose children are one and the
\* same surface returns that surface's own hit.
C17_LeftThenNarrowedRight ==
    (phase = "query" /\ bvh_hit # Unset /\ AABBHit(world.bounding_box, ray, t_range)) =>
        LET left_hit == Hit(world.left, ray, t_range).info
            narrowed == Hit(world.right, ray, Interval(t_range.start, left_hit.t)).info
            whole == Hit(world.right, ray, t_range).info
        IN  /\ left_hit.some /\ narrowed.some => bvh_hit.info = narrowed
            /\ left_hit.some /\ ~narrowed.some => bvh_hit.info = left_hit
            /\ ~left_hit.some => bvh_hit.info = whole
            /\ (world.left = world.right /\ world.left.kind # "bvh") =>
                    bvh_hit.info = left_hit

\* the left child hits, the right child hits closer: the right hit is the
\* one returned
C17_Witness ==
    /\ phase = "query"
    /\ bvh_hit # Unset
    /\ AABBHit(world.bounding_box, ray, t_range)
    /\ Hit(world.left, ray, t_range).info.some
    /\ bvh_hit.info.some
    /\ bvh_hit.info.t < Hit(world.left, ray, t_range).info.t

\* a node over one sphere, hit by the ray: the sphere's own hit comes back
C17_WitnessSameChild ==
    /\ phase = "query"
    /\ bvh_hit # Unset
    /\ world.left = world.right
    /\ world.left.kind = "sphere"
    /\ bvh_hit.info.some

\* the surfaces at the leaves of a tree
RECURSIVE LeafSet(_)
LeafSet(node) ==
    IF node.kind = "bvh" THEN LeafSet(node.left) \cup LeafSet(node.right) ELSE {node}

\* C18: BVHNode::new on a slice of one gives a node whose two children are
\* that surface; on a slice of two the children are the two surfaces in
\* slice order, without a sort or a recursive call; on a slice of n >= 3 the
\* slice is sorted by the start of the box on the chosen axis and split at
\* n / 2, the left subtree holding the floor(n / 2) surfaces of least start.
C18_ShapeOfBuiltNode ==
    (world # None /\ phase # "overflow") =>
        LET objs == hittables.objects
            n == Len(objs)
            axis == longest_axis(world.bounding_box)
        IN  /\ n = 1 =>
                /\ world.left = objs[1]
                /\ world.right = objs[1]
                /\ sort_calls = 0
                /\ new_calls = 1
            /\ n = 2 =>
                /\ world.left = objs[1]
                /\ world.right = objs[2]
                /\ sort_calls = 0
                /\ new_calls = 1
            /\ n >= 3 =>
                /\ world.left.kind = "bvh"
                /\ world.right.kind = "bvh"
                /\ LeafSet(world.left) = {objs[k] : k \in 1..(n \div 2)}
                /\ LeafSet(world.right) = {objs[k] : k \in (n \div 2 + 1)..n}
                /\ \A a \in LeafSet(world.left), b \in LeafSet(world.right) :
                      a.bounding_box[axis + 1].start <= b.bounding_box[axis + 1].start

\* a tree over three surfaces of different starts on the axis: one on the
\* left, two on the right
C18_Witness ==
    /\ world # None
    /\ Len(hittables.objects) = 3
    /\ Cardinality(LeafSet(world.left)) = 1
    /\ Cardinality(LeafSet(world.right)) = 2
    /\ \A a \in LeafSet(world.left), b \in LeafSet(world.right) :
          a.bounding_box[longest_axis(world.bounding_box) + 1].start
              < b.bounding_box[longest_axis(world.bounding_box) + 1].start

----------------------------------------------------------------------------
(* Further claims on single calls *)

\* axis a of the box is as long as any axis, and longer than every axis
\* before it in the order X, Y, Z
FirstLongest(box, a) ==
    /\ a \in 0..2
    /\ \A i \in 1..3 : FLe(size(box[i]), size(box[a + 1]))
    /\ \A i \in 1..a : FLt(size(box[i]), size(box[a + 1]))

\* C19: AABB::longest_axis returns an axis in {0, 1, 2} whose interval is of
\* the greatest size, the first such axis in the order X, Y, Z when several
\* are; BVHNode::new sorts its slice by the box start on that axis of the
\* slice's box.
C19_LongestAxisFirstOnTie ==
    /\ call.fn = "AABB::longest_axis" => FirstLongest(call.self, ret)
    /\ call.fn = "BVHNode::new" =>
          /\ FirstLongest(SliceBox(call.objects, 1, Len(call.objects)), ret.axis)
          /\ \A i, j \in 1..Len(ret.objects) :
                i < j => ret.objects[i].bounding_box[ret.axis + 1].start
                            <= ret.objects[j].bounding_box[ret.axis + 1].start
          /\ \A o \in {call.objects[k] : k \in 1..Len(call.objects)} :
                Cardinality({k \in 1..Len(call.objects) : call.objects[k] = o})
                    = Cardinality({k \in 1..Len(ret.objects) : ret.objects[k] = o})

\* a box whose Y and Z sizes tie above its X size: the answer is Y
C19_Witness ==
    /\ call.fn = "AABB::longest_axis"
    /\ size(call.self[2]) = size(call.self[3])
    /\ size(call.self[1]) < size(call.self[2])
    /\ ret = 1

\* a slice that BVHNode::new sorted on Z into another order
C19_WitnessSort ==
    /\ call.fn = "BVHNode::new"
    /\ ret.axis = 2
    /\ ret.objects # call.objects

----------------------------------------------------------------------------
(* Hit records *)

\* the outward normal of a surface at a point of it
OutwardNormal(obj, point) ==
    IF obj.kind = "sphere" THEN VDivExact(VSub(point, obj.center), obj.radius)
    ELSE obj.normal

\* h is what set_face_normal makes of some member's hit at h.t
FaceNormalRule(h) ==
    /\ dot(h.normal, ray.direction) <= 0
    /\ \E k \in 1..Len(hittables.objects) :
          LET obj == hittables.objects[k]
              own == Hit(obj, ray, t_range).info
              outward_normal == OutwardNormal(obj, h.point)
          IN  /\ own.some
              /\ own.t = h.t
              /\ own.material = h.material
              /\ h.front_face <=> dot(outward_normal, ray.direction) < 0
              /\ h.normal = IF h.front_face THEN outward_normal ELSE VNeg(outward_normal)

\* C20: in every hit that Sphere::hit or Quad::hit returns, front_face is
\* true exactly when dot(outward_normal, ray.direction) < 0, the normal
\* stored is the outward normal when front_face and its negation when not,
\* and so dot(normal, ray.direction) <= 0.
C20_NormalOpposesRay ==
    phase = "query" =>
        /\ (list_hit # Unset /\ list_hit.info.some) => FaceNormalRule(list_hit.info)
        /\ (bvh_hit # Unset /\ bvh_hit.info.some) => FaceNormalRule(bvh_hit.info)

\* a hit from inside the sphere: a back face, with the normal turned round
C20_Witness ==
    /\ phase = "query"
    /\ list_hit # Unset
    /\ list_hit.info.some
    /\ ~list_hit.info.front_face
    /\ list_hit.info.material = SphereA.material
    /\ list_hit.info.normal = VNeg(OutwardNormal(SphereA, list_hit.info.point))
    /\ dot(list_hit.info.normal, ray.direction) < 0

----------------------------------------------------------------------------
(* The tree against the slice it was built from *)

\* the leaves from left to right, the two children of a node over one
\* surface counted once
RECURSIVE LeafSeqOnce(_)
LeafSeqOnce(node) ==
    IF node.kind # "bvh" THEN <<node>>
    ELSE IF node.left.kind # "bvh" /\ node.left = node.right THEN <<node.left>>
    ELSE LeafSeqOnce(node.left) \o LeafSeqOnce(node.right)

\* the number of positions of sequence s that hold x
Count(s, x) == Cardinality({k \in 1..Len(s) : s[k] = x})
SamePermutation(s, t) ==
    /\ Len(s) = Len(t)
    /\ \A k \in 1..Len(s) : Count(s, s[k]) = Count(t, s[k])
Distinct(s) == Cardinality({s[k] : k \in 1..Len(s)}) = Len(s)

C21_LeavesAreMembers ==
    world # None =>
        /\ LeafSet(world) = {hittables.objects[k] : k \in 1..Len(hittables.objects)}
        /\ Distinct(hittables.objects) => LeafSeqOnce(world) = hittables.objects

\* C21: the leaves of the tree BVHNode::new builds from a non-empty slice
\* are the surfaces of the slice: each is at some leaf, no leaf is another
\* surface, and a surface is at two leaves only as the two children of a node
\* over one surface; and BVHNode::from_hittable_list leaves the list with a
\* permutation of its members and the bounding box it had.
C21_LeavesAreTheInputs ==
    /\ []C21_LeavesAreMembers
    /\ [][(phase = "build" \/ phase' = "build") =>
            /\ hittables'.bounding_box = hittables.bounding_box
            /\ SamePermutation(hittables'.objects, hittables.objects)
         ]_vars

\* a tree over three different surfaces: one node over one surface, each
\* surface at its own place
C21_Witness ==
    /\ world # None
    /\ Len(hittables.objects) = 3
    /\ Distinct(hittables.objects)
    /\ world.left.kind = "bvh"
    /\ world.left.left = world.left.right
    /\ LeafSeqOnce(world) = hittables.objects

\* the calls of BVHNode::new a slice of length n makes in all
RECURSIVE NodesFor(_)
NodesFor(n) ==
    IF n <= 2 THEN 1 ELSE 1 + NodesFor(n \div 2) + NodesFor(n - n \div 2)

C22_Safety ==
    Len(hittables.objects) >= 1 =>
        /\ phase # "overflow"
        /\ new_calls <= NodesFor(Len(hittables.objects))
        /\ \A k \in 1..Len(stack) :
              /\ stack[k].n >= 1
              /\ k > 1 =>
                    /\ stack[k - 1].n >= 3
                    /\ stack[k].n < stack[k - 1].n
                    /\ stack[k].n = IF stack[k - 1].pc = "left"
                                    THEN stack[k - 1].n \div 2
                                    ELSE stack[k - 1].n - stack[k - 1].n \div 2
              /\ stack[k].pc = "ret" /\ stack[k].left.kind # "bvh" => stack[k].n \in {1, 2}

\* C22: on a slice of n >= 1 BVHNode::new terminates: every recursive call
\* gets a shorter, non-empty slice, of floor(n / 2) or n - floor(n / 2)
\* members, the recursion ends at slices of 1 and 2 only, and the calls made
\* are finitely many.
C22_BuildTerminates ==
    /\ []C22_Safety
    /\ (phase = "build" /\ Len(hittables.objects) >= 1) ~> (phase = "ready")

\* the second recursive call of a build over three surfaces, on the two
\* that are left
C22_Witness ==
    /\ phase = "build"
    /\ Len(hittables.objects) = 3
    /\ Len(stack) = 2
    /\ stack[1].pc = "right"
    /\ stack[2].n = 2
    /\ new_calls = 3

====
